---- MODULE Spec2Model ----
(***************************************************************************)
(* A model of the eventful() mixin: the listener registry (a Map from      *)
(* event to an insertion-ordered Set of listeners), the subscription       *)
(* handles returned by on/once, and the two emission strategies emit and   *)
(* emitAsync, with listener bodies that may return, throw, return a        *)
(* pending completion, and call back into the emitter while they run.      *)
(***************************************************************************)
EXTENDS Integers, Sequences, FiniteSets, TLC

\* Bounds of the model.
MaxHandles == 2      \* on/once calls in one behaviour
MaxEmits == 2        \* emissions with listeners that are under way at once
MaxAsync == 1        \* of these, emitAsync calls

\* The invocations of a once() listener that are counted.
MaxFired == 2

\* The objects that are assigned to eventful.options in one behaviour.
MaxObjects == 2

\* Input domains.
Events == 1..2
Fns == 1..2

\* A listener argument that is no function, and the arguments on, once and
\* off are called with.
NotFunction == 0
Args == Fns \cup {NotFunction}

VARIABLES
  strict,    \* options.strict, captured at attachment
  map,       \* Map<event, Set>: event -> the Set object (a slot of sets), 0 when absent
  sets,      \* the Set objects: slot -> entry list, with holes where entries were deleted
  handles,   \* the closures returned by on(): event, listener, active
  stack,     \* the emit/emitAsync calls currently dispatching, innermost last
  pend,      \* the emitAsync calls suspended at their await, or with calls unsettled
  last,      \* what the latest step returned to its caller, its trace tag, and
             \* the emission that ended in it
  host,      \* the object eventful() is applied to: what it is, the properties
             \* it has, and how the call ended
  hooks      \* the trace hooks: options.trace (own), the objects that have been
             \* assigned to eventful.options with their trace property (trace),
             \* the one assigned now (cur), and the one eventful() kept in
             \* globalOptions (captured)

vars == <<strict, map, sets, handles, stack, pend, last, host, hooks>>

----------------------------------------------------------------------------
\* Listener values. A plain function f, or the adapter closure that once()
\* builds around f and that calls the handle w before f.

Empty == [fn |-> 0, w |-> 0]
Plain(f) == [fn |-> f, w |-> 0]
Wrapper(f, h) == [fn |-> f, w |-> h]

\* An error is named by the listener whose body made it.
NoErr == Empty

NoEm == [kind |-> "none"]

\* Set objects that can be alive at once: one per event, and one more for
\* each emit still iterating a Set that has left the map.
Slots == 1..(Cardinality(Events) + MaxEmits)

----------------------------------------------------------------------------
\* The built-in Set, as an entry list: delete leaves a hole, add appends,
\* iteration walks the live entries by increasing index.

SetHas(s, l) == \E i \in DOMAIN s : s[i] = l

\* add() on a list instead of a Set: an entry per call.
SetAdd_list(s, l) == Append(s, l)

SetAdd(s, l) == IF SetHas(s, l) THEN s ELSE Append(s, l)

SetDelete(s, l) == [i \in DOMAIN s |-> IF s[i] = l THEN Empty ELSE s[i]]

SetSize(s) == Cardinality({i \in DOMAIN s : s[i] # Empty})

IsLive(x) == x # Empty

ArrayFrom(s) == SelectSeq(s, IsLive)

NextLive(s, p) ==
  LET later == {i \in DOMAIN s : i > p /\ s[i] # Empty}
  IN  IF later = {} THEN 0 ELSE CHOOSE i \in later : \A j \in later : i <= j

----------------------------------------------------------------------------
\* A world w = [map, sets, handles, stack, pend, done] is the state the
\* operations below read and rebuild.

\* The Set objects some for-of loop of emit is iterating.
Iterated(w) ==
  {w.stack[i].sid : i \in {j \in DOMAIN w.stack : w.stack[j].kind = "emit"}}

Referenced(w) == {w.map[e] : e \in Events} \cup Iterated(w)

\* new Set() for an event: a slot that holds no reachable Set, the event's
\* own one unless an emit is still iterating the Set that was there before.
Home(event) == event

Free(w) == {s \in Slots : s > Cardinality(Events) /\ s \notin Referenced(w)}

NewSet(w, event) ==
  IF Home(event) \notin Referenced(w) THEN Home(event)
  ELSE CHOOSE s \in Free(w) : \A t \in Free(w) : s <= t

add(w, event, listener) ==
  IF w.map[event] = 0
  THEN [w EXCEPT !.sets = [w.sets EXCEPT ![NewSet(w, event)] = <<listener>>],
                 !.map = [w.map EXCEPT ![event] = NewSet(w, event)]]
  ELSE [w EXCEPT !.sets = [w.sets EXCEPT ![w.map[event]] = SetAdd(@, listener)]]

\* The value remove() returns.
removeDeleted(w, event, listener) ==
  IF w.map[event] = 0 THEN FALSE ELSE SetHas(w.sets[w.map[event]], listener)

\* remove() without the deletion of an entry whose Set became empty.
remove_keepsEntry(w, event, listener) ==
  IF w.map[event] = 0
  THEN w
  ELSE [w EXCEPT !.sets = [w.sets EXCEPT ![w.map[event]] = SetDelete(@, listener)]]

\* remove() that deletes the event's entry whatever the Set still holds.
remove_dropsEntry(w, event, listener) ==
  IF w.map[event] = 0
  THEN w
  ELSE [w EXCEPT !.sets = [w.sets EXCEPT ![w.map[event]] = SetDelete(@, listener)],
                 !.map = [w.map EXCEPT ![event] = 0]]

\* remove() that clears the event's Set instead of deleting one listener.
remove_clearsSet(w, event, listener) ==
  IF w.map[event] = 0
  THEN w
  ELSE [w EXCEPT !.sets = [w.sets EXCEPT ![w.map[event]] = <<>>],
                 !.map = [w.map EXCEPT ![event] = 0]]

remove(w, event, listener) ==
  IF w.map[event] = 0
  THEN w
  ELSE LET sid == w.map[event]
           after == SetDelete(w.sets[sid], listener)
       IN  [w EXCEPT !.sets = [w.sets EXCEPT ![sid] = after],
                     !.map = IF SetSize(after) = 0
                             THEN [w.map EXCEPT ![event] = 0]
                             ELSE w.map]

has(event) ==
  IF map[event] # 0 THEN SetSize(sets[map[event]]) > 0 ELSE FALSE

\* getListeners(event).size: the size of the event's Set, 0 for the shared
\* empty Set that stands in for an absent entry.
listenersSize(event) ==
  IF map[event] = 0 THEN 0 ELSE SetSize(sets[map[event]])

\* The listeners of an event in subscription order, as the registry has them.
Listeners(m, ss, event) ==
  IF m[event] = 0 THEN <<>> ELSE ArrayFrom(ss[m[event]])

----------------------------------------------------------------------------
\* The subscription handle: the closure returned by on().

\* The value the handle returns.
handleReturns(w, h) ==
  IF ~w.handles[h].active THEN FALSE
  ELSE removeDeleted(w, w.handles[h].ev, w.handles[h].listener)

\* The handle without its active flag: every invocation calls remove().
handleInvoke_reusable(w, h) ==
  remove([w EXCEPT !.handles = [w.handles EXCEPT ![h].used = TRUE]],
         w.handles[h].ev, w.handles[h].listener)

handleInvoke(w, h) ==
  LET hd == w.handles[h]
      w1 == [w EXCEPT !.handles = [w.handles EXCEPT ![h].used = TRUE]]
  IN  IF ~hd.active
      THEN w1
      ELSE remove([w1 EXCEPT !.handles = [w1.handles EXCEPT ![h].active = FALSE]],
                  hd.ev, hd.listener)

----------------------------------------------------------------------------
World == [map |-> map, sets |-> sets, handles |-> handles,
          stack |-> stack, pend |-> pend, done |-> NoEm]

\* What the garbage collector and the Set's own compaction leave of the Set
\* objects: an unreachable Set is gone, and the holes of a Set that no loop
\* is iterating cannot be observed.
Heap(w) ==
  [s \in Slots |->
     IF s \notin Referenced(w) THEN <<>>
     ELSE IF s \notin Iterated(w) THEN ArrayFrom(w.sets[s])
     ELSE w.sets[s]]

\* The trace hook that the operation tracing with this tag calls: off reads
\* eventful.options when it is called, the others read the object eventful()
\* kept in globalOptions.
traceHook(tag) ==
  IF tag = "none" THEN "none"
  ELSE IF hooks.own # "none" THEN hooks.own
  ELSE IF tag = "off" THEN hooks.trace[hooks.cur]
  ELSE hooks.trace[hooks.captured]

Ret(op, ret, trace) ==
  [op |-> op, ret |-> ret, trace |-> trace, hook |-> traceHook(trace),
   h |-> 0, done |-> NoEm]

Commit(w, lst) ==
  /\ map' = w.map
  /\ sets' = Heap(w)
  /\ handles' = w.handles
  /\ stack' = w.stack
  /\ pend' = w.pend
  /\ last' = [lst EXCEPT !.done = w.done]
  /\ UNCHANGED <<strict, host, hooks>>

Bool(b) == IF b THEN "true" ELSE "false"

\* The emitter treats all events alike and all functions alike, so the
\* program's events and functions are numbered in the order of their first
\* subscription; one not subscribed yet is the next number.
Named(e, f) ==
  /\ e <= Cardinality({handles[i].ev : i \in DOMAIN handles}) + 1
  /\ f <= Cardinality({handles[i].listener.fn : i \in DOMAIN handles}) + 1

\* eventful(object, options). The properties it defines on the object, and
\* those its collision check looks for.
Names == {"on", "once", "off", "emit", "emitAsync", "has"}

Checked == {"on", "once", "off", "emit", "has"}

HostKinds == {"object", "function", "primitive"}

\* The properties of an object that has those of the set had: its own ones.
Before(had) == [n \in Names |-> IF n \in had THEN "own" ELSE "absent"]

attach(kind, had) ==
  IF kind = "primitive"
  THEN [res |-> "TypeError", kind |-> kind, had |-> had, props |-> Before(had)]
  ELSE IF had \cap Checked # {}
  THEN [res |-> "Error", kind |-> kind, had |-> had, props |-> Before(had)]
  ELSE [res |-> "attached", kind |-> kind, had |-> had,
        props |-> [n \in Names |-> "eventful"]]

\* What the closure of eventful() starts with.
Fresh ==
  /\ strict \in BOOLEAN
  /\ map = [e \in Events |-> 0]
  /\ sets = [s \in Slots |-> <<>>]
  /\ handles = <<>>
  /\ stack = <<>>
  /\ pend = <<>>
  /\ last = Ret("none", "none", "none")

\* eventful.options as the module defines it, kept by an eventful() call
\* whose options have this trace ("none": no trace option).
Defaults(own) ==
  [own |-> own, captured |-> 1, cur |-> 1,
   trace |-> [o \in 1..MaxObjects |-> IF o = 1 THEN "default" ELSE "none"]]

\* The emitter of eventful() applied to an object without properties, with
\* no trace option, in a program that leaves eventful.options alone.
Init ==
  /\ Fresh
  /\ host = attach("object", {})
  /\ hooks = Defaults("none")

isFunction(value) == value \in Fns

\* functionTypeGuard without its test.
functionTypeGuard_passesAll(value) == TRUE

\* TRUE when the guard lets the value pass, FALSE when it throws.
functionTypeGuard(value) == isFunction(value)

On(e, f) ==
  \/ /\ ~functionTypeGuard(f)
     /\ Commit(World, Ret("on", "TypeError", "none"))
  \/ /\ functionTypeGuard(f)
     /\ Named(e, f)
     /\ Len(handles) < MaxHandles
     /\ LET l == Plain(f)
            w1 == add(World, e, l)
            w2 == [w1 EXCEPT !.handles =
                     Append(w1.handles, [ev |-> e, listener |-> l, kind |-> "on",
                                         active |-> TRUE, used |-> FALSE,
                                         offed |-> FALSE, fired |-> 0])]
        IN  Commit(w2, Ret("on", "handle", "on"))

Once(e, f) ==
  \/ /\ ~functionTypeGuard(f)
     /\ Commit(World, Ret("once", "TypeError", "none"))
  \/ /\ functionTypeGuard(f)
     /\ Named(e, f)
     /\ Len(handles) < MaxHandles
     /\ LET l == Wrapper(f, Len(handles) + 1)
            w1 == add(World, e, l)
            w2 == [w1 EXCEPT !.handles =
                     Append(w1.handles, [ev |-> e, listener |-> l, kind |-> "once",
                                         active |-> TRUE, used |-> FALSE,
                                         offed |-> FALSE, fired |-> 0])]
        IN  Commit(w2, Ret("once", "handle", "on"))

\* The handles of on(event, listener) that are live when off(event, listener)
\* takes the listener out of the event's Set are marked: off() itself does
\* not reach the handle's active flag.
offMarks(w, event, listener) ==
  [w EXCEPT !.handles =
     [h \in DOMAIN w.handles |->
        IF /\ w.handles[h].ev = event
           /\ w.handles[h].listener = listener
           /\ w.handles[h].active
           /\ removeDeleted(w, event, listener)
        THEN [w.handles[h] EXCEPT !.offed = TRUE]
        ELSE w.handles[h]]]

Off(e, f) ==
  \/ /\ ~functionTypeGuard(f)
     /\ Commit(World, Ret("off", "TypeError", "none"))
  \/ /\ functionTypeGuard(f)
     /\ Named(e, f)
     /\ Commit(remove(offMarks(World, e, Plain(f)), e, Plain(f)),
               Ret("off", Bool(removeDeleted(World, e, Plain(f))), "off"))

\* The program invokes the handle that the h-th on/once call returned.
HandleCall(h) ==
  /\ h \in DOMAIN handles
  /\ Commit(handleInvoke(World, h),
            [Ret("handle", Bool(handleReturns(World, h)), "none") EXCEPT !.h = h])

----------------------------------------------------------------------------
\* Emission. A frame is one emit/emitAsync call that found listeners:
\*   sid    emit: the Set object the for-of loop iterates
\*   at     the entries of the event's Set at the lookup
\*   snap   the listeners of the event's Set at the lookup, in order
\*   end    emit: the entries of the iterated Set when the call ended
\*   pos    emit: the Set entry being visited; emitAsync: the index in snap
\*   calls  the listener invocations made so far and how each one ended
\*   log    the invocations and error hook calls, in the order they happened
\*   res    "dispatching", then emit: "returned" | "threw",
\*          emitAsync: "pending" | "resolved" | "rejected"
\*   err    the error the call threw or rejected with
\*   rej    emitAsync: the error of the first call promise that was rejected

NewEmission(kind, e) ==
  [kind |-> kind, ev |-> e, sid |-> IF kind = "emit" THEN map[e] ELSE 0,
   at |-> sets[map[e]], snap |-> ArrayFrom(sets[map[e]]), end |-> <<>>,
   pos |-> 0, calls |-> <<>>, log |-> <<>>, res |-> "dispatching",
   err |-> NoErr, rej |-> NoErr]

Pop(stk) == SubSeq(stk, 1, Len(stk) - 1)

\* The innermost emission and the call that is running in it.
Top == Len(stack)
Cur == Len(stack[Top].calls)

\* Invoke listener l, found at position p, for the innermost emission. The
\* once() adapter calls its own handle first and then the wrapped function.
StartCall(w, l, p) ==
  LET k == Len(w.stack)
      w0 == IF l.w # 0 THEN handleInvoke(w, l.w) ELSE w
      w1 == IF l.w # 0
            THEN [w0 EXCEPT !.handles[l.w].fired = IF @ < MaxFired THEN @ + 1 ELSE @]
            ELSE w0
  IN  [w1 EXCEPT !.stack[k].pos = p,
                 !.stack[k].calls = Append(@, [l |-> l, pos |-> p,
                                               st |-> "running", err |-> NoErr]),
                 !.stack[k].log = Append(@, [t |-> "call", l |-> l,
                                             ev |-> w.stack[k].ev, err |-> NoErr])]

\* The innermost emission leaves the stack with result res.
Leave(w, res, err) ==
  LET top == w.stack[Len(w.stack)]
      em == [top EXCEPT !.res = res, !.err = err,
                        !.end = IF top.kind = "emit" THEN w.sets[top.sid] ELSE <<>>]
  IN  IF res = "pending"
      THEN [w EXCEPT !.stack = Pop(w.stack), !.pend = Append(w.pend, em)]
      ELSE [w EXCEPT !.stack = Pop(w.stack), !.done = em]

\* emit: the for-of loop over the live Set moves on to the next entry.
emitNext(w) ==
  LET em == w.stack[Len(w.stack)]
      p == NextLive(w.sets[em.sid], em.pos)
  IN  IF p = 0
      THEN Leave(w, "returned", NoErr)
      ELSE StartCall(w, w.sets[em.sid][p], p)

\* A variant that maps over the listeners the event has by now instead of
\* the array copied when the call began.
emitAsyncNext_live(w) ==
  LET em == w.stack[Len(w.stack)]
      now == Listeners(w.map, w.sets, em.ev)
      p == em.pos + 1
  IN  IF p > Len(now)
      THEN Leave(w, "pending", NoErr)
      ELSE StartCall(w, now[p], p)

\* emitAsync: Array.from(listeners).map(...) moves on to the next element;
\* after the last one the function suspends at its await.
emitAsyncNext(w) ==
  LET em == w.stack[Len(w.stack)]
      p == em.pos + 1
  IN  IF p > Len(em.snap)
      THEN Leave(w, "pending", NoErr)
      ELSE StartCall(w, em.snap[p], p)

Dispatch(w) ==
  IF w.stack[Len(w.stack)].kind = "emit" THEN emitNext(w) ELSE emitAsyncNext(w)

\* What a dispatching step hands back to the caller of the emission, if it
\* ended the dispatch: emit returns or throws, emitAsync returns its promise.
Returned(w) ==
  IF Len(w.stack) = Len(stack) THEN Ret("none", "none", "none")
  ELSE IF w.done = NoEm THEN Ret("emitAsync", "promise", "none")
  ELSE Ret("emit", IF w.done.res = "threw" THEN "threw" ELSE "void", "none")

HookEntry(em, call, err) ==
  [t |-> "hook", l |-> call.l, ev |-> em.ev, err |-> err]

\* The catch block of emit with a rethrow that does not look at strict.
emitCatch_rethrows(w, err) ==
  LET k == Len(w.stack)
      em == w.stack[k]
      c == Len(em.calls)
      w1 == [w EXCEPT !.stack[k].calls[c].st = "threw",
                      !.stack[k].calls[c].err = err,
                      !.stack[k].log = Append(@, HookEntry(em, em.calls[c], err))]
  IN  Leave(w1, "threw", err)

\* The catch block of emit with a return in place of the rethrow: the loop
\* ends at the first listener that throws.
emitCatch_returns(w, err) ==
  LET k == Len(w.stack)
      em == w.stack[k]
      c == Len(em.calls)
      w1 == [w EXCEPT !.stack[k].calls[c].st = "threw",
                      !.stack[k].calls[c].err = err,
                      !.stack[k].log = Append(@, HookEntry(em, em.calls[c], err))]
  IN  IF strict THEN Leave(w1, "threw", err) ELSE Leave(w1, "returned", NoErr)

\* The catch block of emit without the rethrow.
emitCatch_swallows(w, err) ==
  LET k == Len(w.stack)
      em == w.stack[k]
      c == Len(em.calls)
      w1 == [w EXCEPT !.stack[k].calls[c].st = "threw",
                      !.stack[k].calls[c].err = err,
                      !.stack[k].log = Append(@, HookEntry(em, em.calls[c], err))]
  IN  emitNext(w1)

\* emit's catch block: error hook, then rethrow when strict.
emitCatch(w, err) ==
  LET k == Len(w.stack)
      em == w.stack[k]
      c == Len(em.calls)
      w1 == [w EXCEPT !.stack[k].calls[c].st = "threw",
                      !.stack[k].calls[c].err = err,
                      !.stack[k].log = Append(@, HookEntry(em, em.calls[c], err))]
  IN  IF strict THEN Leave(w1, "threw", err) ELSE emitNext(w1)

\* emitAsync's catch block: error hook, then reject the call promise.
emitAsyncCatch(w, err) ==
  LET k == Len(w.stack)
      em == w.stack[k]
      c == Len(em.calls)
      w1 == [w EXCEPT !.stack[k].calls[c].st = "threw",
                      !.stack[k].calls[c].err = err,
                      !.stack[k].rej = IF @ = NoErr THEN err ELSE @,
                      !.stack[k].log = Append(@, HookEntry(em, em.calls[c], err))]
  IN  emitAsyncNext(w1)

\* .then(resolve, reject) on the completion that call i of em returned.
thenSettle(em, i, ok) ==
  IF ok
  THEN [em EXCEPT !.calls[i].st = "fulfilled"]
  ELSE [em EXCEPT !.calls[i].st = "rejected",
                  !.calls[i].err = em.calls[i].l,
                  !.rej = IF @ = NoErr THEN em.calls[i].l ELSE @]

Settled(call) == call.st \in {"fulfilled", "threw", "rejected"}

AllSettled(em) == \A i \in DOMAIN em.calls : Settled(em.calls[i])

\* The await with Promise.any in place of Promise.allSettled.
awaitResult_any(em) ==
  IF strict
  THEN IF em.rej # NoErr THEN "rejected"
       ELSE IF \A i \in DOMAIN em.calls : em.calls[i].st = "fulfilled"
            THEN "resolved" ELSE "pending"
  ELSE IF \E i \in DOMAIN em.calls : em.calls[i].st = "fulfilled"
       THEN "resolved" ELSE "pending"

\* The await that looks at the outcomes only after Promise.allSettled.
awaitResult_late(em) ==
  IF ~AllSettled(em) THEN "pending"
  ELSE IF strict /\ em.rej # NoErr THEN "rejected"
  ELSE "resolved"

\* await Promise.all(calls) when strict, await Promise.allSettled(calls) else.
awaitResult(em) ==
  IF strict
  THEN IF em.rej # NoErr THEN "rejected"
       ELSE IF \A i \in DOMAIN em.calls : em.calls[i].st = "fulfilled"
            THEN "resolved" ELSE "pending"
  ELSE IF AllSettled(em) THEN "resolved" ELSE "pending"

Remove(seq, k) == SubSeq(seq, 1, k - 1) \o SubSeq(seq, k + 1, Len(seq))

\* An emitAsync whose promise and whose calls have all settled is over.
Retire(w, k) ==
  IF w.pend[k].res # "pending" /\ AllSettled(w.pend[k])
  THEN [w EXCEPT !.pend = Remove(w.pend, k), !.done = w.pend[k]]
  ELSE w

\* The emitAsync calls under way: dispatching, awaiting, or with calls unsettled.
AsyncAlive ==
  Len(pend) + Cardinality({i \in DOMAIN stack : stack[i].kind = "emitAsync"})

\* emit with the trace call moved below the check for an empty Set.
Emit_tracesAfterCheck(e) ==
  \/ /\ Named(e, 1)
     /\ listenersSize(e) = 0
     /\ Commit(World, Ret("emit", "void", "none"))
  \/ /\ listenersSize(e) # 0
     /\ Len(stack) + Len(pend) < MaxEmits
     /\ LET w1 == [World EXCEPT !.stack = Append(stack, NewEmission("emit", e))]
        IN  Commit(emitNext(w1), Ret("none", "none", "emit"))

Emit(e) ==
  \/ /\ Named(e, 1)
     /\ listenersSize(e) = 0
     /\ Commit(World, Ret("emit", "void", "emit"))
  \/ /\ listenersSize(e) # 0
     /\ Len(stack) + Len(pend) < MaxEmits
     /\ LET w1 == [World EXCEPT !.stack = Append(stack, NewEmission("emit", e))]
        IN  Commit(emitNext(w1), Ret("none", "none", "emit"))

EmitAsync(e) ==
  \/ /\ Named(e, 1)
     /\ listenersSize(e) = 0
     /\ Commit(World, Ret("emitAsync", "resolved", "emitAsync"))
  \/ /\ listenersSize(e) # 0
     /\ Len(stack) + Len(pend) < MaxEmits
     /\ AsyncAlive < MaxAsync
     /\ LET w1 == [World EXCEPT !.stack = Append(stack, NewEmission("emitAsync", e))]
        IN  Commit(emitAsyncNext(w1), Ret("none", "none", "emitAsync"))

\* The running listener returns. emit drops what it returned; to emitAsync
\* this is a value that is no pending completion (the once() adapter returns
\* nothing, whatever the wrapped function returned).
BodyReturn ==
  /\ stack # <<>>
  /\ LET w1 == [World EXCEPT !.stack[Top].calls[Cur].st = "fulfilled"]
         w2 == Dispatch(w1)
     IN  Commit(w2, Returned(w2))

\* The running listener hands emitAsync a completion that is still pending.
BodyPromise ==
  /\ stack # <<>>
  /\ stack[Top].kind = "emitAsync"
  /\ stack[Top].calls[Cur].l.w = 0
  /\ LET w1 == [World EXCEPT !.stack[Top].calls[Cur].st = "pending"]
         w2 == Dispatch(w1)
     IN  Commit(w2, Returned(w2))

\* The errors the running listener can throw: one of its own, or the one
\* that the emit it has just called threw at it.
Throwable ==
  {stack[Top].calls[Cur].l}
    \cup (IF last.op = "emit" /\ last.ret = "threw" THEN {last.done.err} ELSE {})

BodyThrow(err) ==
  /\ stack # <<>>
  /\ err \in Throwable
  /\ LET w2 == IF stack[Top].kind = "emit"
               THEN emitCatch(World, err)
               ELSE emitAsyncCatch(World, err)
     IN  Commit(w2, Returned(w2))

\* A completion returned by a listener of emitAsync k settles and its
\* reaction runs.
Settle(k, i, ok) ==
  /\ stack = <<>>
  /\ k \in DOMAIN pend
  /\ i \in DOMAIN pend[k].calls
  /\ pend[k].calls[i].st = "pending"
  /\ Commit(Retire([World EXCEPT !.pend[k] = thenSettle(pend[k], i, ok)], k),
            Ret("none", "none", "none"))

\* The await of emitAsync k completes.
AsyncSettle(k) ==
  /\ stack = <<>>
  /\ k \in DOMAIN pend
  /\ pend[k].res = "pending"
  /\ awaitResult(pend[k]) # "pending"
  /\ Commit(Retire([World EXCEPT !.pend[k].res = awaitResult(pend[k]),
                                 !.pend[k].err = IF awaitResult(pend[k]) = "rejected"
                                                 THEN pend[k].rej ELSE NoErr], k),
            Ret("none", "none", "none"))

AllListeners ==
  {Plain(f) : f \in Fns} \cup {Wrapper(f, h) : f \in Fns, h \in 1..MaxHandles}

Next ==
  \/ \E e \in Events, f \in Args : On(e, f)
  \/ \E e \in Events, f \in Args : Once(e, f)
  \/ \E e \in Events, f \in Args : Off(e, f)
  \/ \E h \in 1..MaxHandles : HandleCall(h)
  \/ \E e \in Events : Emit(e)
  \/ \E e \in Events : EmitAsync(e)
  \/ BodyReturn
  \/ BodyPromise
  \/ \E err \in AllListeners : BodyThrow(err)
  \/ \E k \in 1..MaxAsync, i \in 1..MaxHandles, ok \in BOOLEAN : Settle(k, i, ok)
  \/ \E k \in 1..MaxAsync : AsyncSettle(k)

Spec == Init /\ [][Next]_vars

\* The emitter of a program that emits with emitAsync alone, under the
\* scheduling of a run in which every listener body ends: a body that runs
\* returns or throws, and the continuation of an await whose promise has
\* settled runs once the stack is empty.
AsyncNext ==
  \/ \E e \in Events, f \in Args : On(e, f)
  \/ \E e \in Events, f \in Args : Once(e, f)
  \/ \E e \in Events, f \in Args : Off(e, f)
  \/ \E h \in 1..MaxHandles : HandleCall(h)
  \/ \E e \in Events : EmitAsync(e)
  \/ BodyReturn
  \/ BodyPromise
  \/ \E err \in AllListeners : BodyThrow(err)
  \/ \E k \in 1..MaxAsync, i \in 1..MaxHandles, ok \in BOOLEAN : Settle(k, i, ok)
  \/ \E k \in 1..MaxAsync : AsyncSettle(k)

BodyEnds == BodyReturn \/ \E err \in AllListeners : BodyThrow(err)

AsyncLive ==
  /\ Init /\ [][AsyncNext]_vars
  /\ WF_vars(BodyEnds)
  /\ \A k \in 1..MaxAsync : SF_vars(AsyncSettle(k))

\* eventful() applied to any object, function or other value, with any of
\* the names it defines present already.
AttachInit ==
  /\ Fresh
  /\ hooks = Defaults("none")
  /\ host \in [res : {"new"}, kind : HostKinds, had : SUBSET Names,
                props : [Names -> {"absent", "own"}]]
  /\ host.props = Before(host.had)

Attach ==
  /\ host.res = "new"
  /\ host' = attach(host.kind, host.had)
  /\ UNCHANGED <<strict, map, sets, handles, stack, pend, last, hooks>>

AttachNext == Attach

AttachSpec == AttachInit /\ [][AttachNext]_vars


\* The emitter in a program that sets its own global trace hook, by
\* assigning to the trace property of eventful.options or by assigning a new
\* object to eventful.options, while it uses one event and one listener.
HookInit ==
  /\ Fresh
  /\ host = attach("object", {})
  /\ hooks \in {Defaults("none"), Defaults("own")}

\* eventful.options.trace = t
SetGlobalTrace(t) ==
  /\ hooks' = [hooks EXCEPT !.trace[hooks.cur] = t]
  /\ hooks' # hooks
  /\ last' = Ret("none", "none", "none")
  /\ UNCHANGED <<strict, map, sets, handles, stack, pend, host>>

\* eventful.options = { trace: t, ... }
ReplaceGlobal(t) ==
  /\ hooks.cur < MaxObjects
  /\ hooks' = [hooks EXCEPT !.cur = hooks.cur + 1, !.trace[hooks.cur + 1] = t]
  /\ last' = Ret("none", "none", "none")
  /\ UNCHANGED <<strict, map, sets, handles, stack, pend, host>>

GlobalHooks == {"default", "custom"}

HookNext ==
  \/ \E t \in GlobalHooks : SetGlobalTrace(t)
  \/ \E t \in GlobalHooks : ReplaceGlobal(t)
  \/ \E f \in {1, NotFunction} : On(1, f)
  \/ \E f \in {1, NotFunction} : Off(1, f)
  \/ Emit(1)
  \/ EmitAsync(1)
  \/ BodyReturn
  \/ \E k \in 1..MaxAsync : AsyncSettle(k)

HookSpec == HookInit /\ [][HookNext]_vars


\* The emitter of a program that has subscribed a listener under event 1 and
\* has not kept the handle.
LoadedInit ==
  /\ strict \in BOOLEAN
  /\ map = [e \in Events |-> IF e = 1 THEN Home(1) ELSE 0]
  /\ sets = [s \in Slots |-> IF s = Home(1) THEN <<Plain(2)>> ELSE <<>>]
  /\ handles = <<>>
  /\ stack = <<>>
  /\ pend = <<>>
  /\ last = Ret("none", "none", "none")
  /\ host = attach("object", {})
  /\ hooks = Defaults("none")

\* Its program subscribes and unsubscribes under event 1 and emits it,
\* between and within listener bodies, which all return.
LoadedNext ==
  \/ \E f \in Args : On(1, f)
  \/ \E f \in Args : Off(1, f)
  \/ Emit(1)
  \/ BodyReturn

LoadedSpec == LoadedInit /\ [][LoadedNext]_vars

----------------------------------------------------------------------------
\* The emissions a state shows: those dispatching, those awaiting, and the
\* one that ended in the latest step.

Over == IF last.done = NoEm THEN {} ELSE {last.done}

Dispatching == {stack[i] : i \in DOMAIN stack}

Awaiting == {pend[k] : k \in DOMAIN pend}

Emissions == Dispatching \cup Awaiting \cup Over

\* The error hook calls that follow the i-th listener invocation of an
\* emission and precede the next one.
CallsBefore(em, j) == Cardinality({n \in 1..j : em.log[n].t = "call"})

HooksOf(em, i) ==
  {j \in DOMAIN em.log : em.log[j].t = "hook" /\ CallsBefore(em, j) = i}

\* The i-th failure of the emission was reported to the error hook exactly
\* once, at once, with the error and the context {event, listener}.
ReportedOnce(em, i) ==
  /\ Cardinality(HooksOf(em, i)) = 1
  /\ \A j \in HooksOf(em, i) :
       /\ em.log[j - 1].t = "call"
       /\ em.log[j].l = em.calls[i].l
       /\ em.log[j].ev = em.ev
       /\ em.log[j].err = em.calls[i].err

Failed(call) == call.st \in {"threw", "rejected"}

\* The positions of the iterated Set that the emission has invoked.
Visited(em) == {em.calls[i].pos : i \in DOMAIN em.calls}

\* The entries that were in the Set at the lookup and never left it while
\* the emission ran.
Stayed(em) ==
  {q \in DOMAIN em.at : em.at[q] # Empty /\ em.end[q] = em.at[q]}

----------------------------------------------------------------------------
\* C7: in every reachable state the registry has an entry for an event
\* exactly when the event has at least one listener, and has(event) is true
\* exactly then.
RegistryEntryIffListener ==
  \A e \in Events :
    /\ map[e] # 0 <=> listenersSize(e) > 0
    /\ has(e) <=> map[e] # 0
    /\ has(e) <=> Listeners(map, sets, e) # <<>>

\* C7 witness: a listener has just emptied an event's set from inside an
\* emission of that event, and the entry is gone.
EmptiedWhileEmitting ==
  /\ stack # <<>>
  /\ last.op \in {"off", "handle"}
  /\ last.ret = "true"
  /\ map[stack[Top].ev] = 0
  /\ ~has(stack[Top].ev)

----------------------------------------------------------------------------
NoDuplicates(seq) == \A i, j \in DOMAIN seq : seq[i] = seq[j] => i = j

Registry == [e \in Events |-> Listeners(map, sets, e)]

Without(seq, l) == SelectSeq(seq, LAMBDA x : x # l)

Range(seq) == {seq[i] : i \in DOMAIN seq}

\* The listeners an emission has invoked, in the order it invoked them.
Invoked(em) == [i \in DOMAIN em.calls |-> em.calls[i].l]

\* No one subscribed or unsubscribed a listener of the emission's Set while
\* the emission ran.
Undisturbed(em) == em.end = em.at

\* C8: a listener reference is at most once in an event's set: on(e, f) with
\* f already under e leaves every set as it was, on(e, f) with f not under e
\* appends f to e's set alone, whatever the other events hold, and an
\* emission of e then invokes f exactly once.
OnePerEvent ==
  /\ [](\A e \in Events : NoDuplicates(Registry[e]))
  /\ [](\A em \in Over :
          /\ em.kind = "emitAsync" => Invoked(em) = em.snap /\ NoDuplicates(em.snap)
          /\ em.kind = "emit" /\ em.res = "returned" /\ Undisturbed(em)
               => Invoked(em) = em.snap /\ NoDuplicates(em.snap))
  /\ [][\A e \in Events, f \in Fns :
          On(e, f) =>
            Registry' = [Registry EXCEPT ![e] =
                           IF Plain(f) \in Range(@) THEN @ ELSE Append(@, Plain(f))]]_vars

\* C8 witness: the same function was subscribed twice under one event, the
\* set holds it once, and an emission of the event has invoked it once.
SubscribedTwiceInvokedOnce ==
  /\ Len(handles) = 2
  /\ handles[1].kind = "on" /\ handles[2].kind = "on"
  /\ handles[1].ev = handles[2].ev
  /\ handles[1].listener = handles[2].listener
  /\ Registry[handles[1].ev] = <<handles[1].listener>>
  /\ last.done # NoEm
  /\ last.done.ev = handles[1].ev
  /\ Invoked(last.done) = <<handles[1].listener>>

\* C9: a handle that has been invoked is spent: every later invocation
\* returns false and leaves the registry as it is, also when its listener is
\* registered under its event again.
HandleSingleUse ==
  [][\A h \in 1..MaxHandles :
       (h \in DOMAIN handles /\ handles[h].used /\ HandleCall(h))
         => last'.ret = "false" /\ Registry' = Registry /\ map' = map]_vars

\* C9 witness: a spent handle of on(e, f) was invoked again and returned
\* false while f, subscribed again, is registered under e.
SpentHandleSparesResubscribed ==
  /\ last.op = "handle"
  /\ last.ret = "false"
  /\ handles[last.h].kind = "on"
  /\ handles[last.h].listener \in Range(Registry[handles[last.h].ev])

\* C10: the first invocation of the handle of on(e, f), with f registered
\* under e, returns true and takes exactly f out of e's set, the other
\* listeners of e keeping their order and the other events their sets; the
\* second invocation returns false and changes no set.
HandleRemovesExactlyItsListener ==
  [][\A h \in 1..MaxHandles :
       (h \in DOMAIN handles /\ handles[h].kind = "on" /\ HandleCall(h))
         => LET e == handles[h].ev
                f == handles[h].listener
            IN  IF ~handles[h].used /\ f \in Range(Registry[e])
                THEN /\ last'.ret = "true"
                     /\ Registry' = [Registry EXCEPT ![e] = Without(@, f)]
                ELSE handles[h].used => last'.ret = "false" /\ Registry' = Registry]_vars

\* C10 witness: the first invocation of a handle of on(e, f) returned true
\* and left another listener under e.
FirstInvocationLeavesOthers ==
  /\ last.op = "handle"
  /\ last.ret = "true"
  /\ handles[last.h].kind = "on"
  /\ Registry[handles[last.h].ev] # <<>>
  /\ handles[last.h].listener \notin Range(Registry[handles[last.h].ev])

\* C11 (as claimed): once off(e, f) has removed the listener of a live handle
\* of on(e, f), every invocation of the handle returns false and removes
\* nothing, also when f has been subscribed under e again.
HandleInertAfterOff ==
  [][\A h \in 1..MaxHandles :
       (h \in DOMAIN handles /\ handles[h].kind = "on" /\ handles[h].offed
          /\ HandleCall(h))
         => last'.ret = "false" /\ Registry' = Registry]_vars

\* C11 failing case: a handle whose listener off(e, f) had removed was invoked
\* after f was subscribed again, returned true and removed the new
\* subscription.
HandleRevivedAfterOff ==
  /\ last.op = "handle"
  /\ last.ret = "true"
  /\ handles[last.h].kind = "on"
  /\ handles[last.h].offed
  /\ handles[last.h].listener \notin Range(Registry[handles[last.h].ev])

\* C12 (as claimed): the function of a once() subscription is invoked at
\* most once, whatever emissions of its event overlap.
OnceFiresAtMostOnce ==
  \A h \in DOMAIN handles : handles[h].kind = "once" => handles[h].fired <= 1

\* C12 failing case: an emitAsync has invoked, from its array of listeners,
\* the adapter of a once() subscription whose function an emission started
\* by an earlier listener of the same emitAsync had invoked already.
OnceFiredAgainFromArray ==
  /\ stack # <<>>
  /\ stack[Top].kind = "emitAsync"
  /\ stack[Top].calls # <<>>
  /\ stack[Top].calls[Cur].l.w # 0
  /\ stack[Top].calls[Cur].st = "running"
  /\ handles[stack[Top].calls[Cur].l.w].fired = 2

\* The once() adapters that an emitAsync still has to invoke from its array.
Outstanding ==
  UNION {{em.snap[i] : i \in {j \in DOMAIN em.snap : j > em.pos}} :
           em \in {x \in Dispatching : x.kind = "emitAsync"}}

\* C13 (as claimed): after once(e, f) an emission of e that runs to its end
\* leaves no adapter of its lookup waiting (f has been invoked, unless the
\* program invoked the handle first); once f has been invoked no emission
\* invokes it again; and a handle invoked before any emission picked the
\* adapter up keeps f from ever being invoked.
OnceFiresOnFirstEmissionOnly ==
  /\ [](\A em \in Emissions \ Dispatching :
          em.res # "threw" =>
            \A i \in DOMAIN em.snap :
              em.snap[i].w # 0 => handles[em.snap[i].w].used)
  /\ [][\A h \in 1..MaxHandles :
          (h \in DOMAIN handles /\ handles[h].kind = "once" /\ handles[h].fired >= 1)
            => handles'[h].fired = handles[h].fired]_vars
  /\ [][\A h \in 1..MaxHandles :
          (/\ h \in DOMAIN handles
           /\ handles[h].kind = "once"
           /\ handles[h].used
           /\ handles[h].fired = 0
           /\ handles[h].listener \notin Outstanding)
            => handles'[h].fired = 0]_vars

\* C13 failing case: an emitAsync that is over has invoked the function of a
\* once() subscription that another emission had invoked as well.
OnceFiredInTwoEmissions ==
  /\ last.done # NoEm
  /\ last.done.kind = "emitAsync"
  /\ \E i \in DOMAIN last.done.calls :
       /\ last.done.calls[i].l.w # 0
       /\ handles[last.done.calls[i].l.w].fired = 2
       /\ \A j \in DOMAIN last.done.calls :
            last.done.calls[j].l = last.done.calls[i].l => j = i

\* C14: off(e, f) returns true exactly when f is in e's set, and then takes
\* f alone out of it, the entry of e going with its last listener; otherwise
\* (f never subscribed included) it returns false and changes nothing. The
\* sets of the other events stay as they are in both cases.
OffRemovesExactlyListener ==
  [][\A e \in Events, f \in Fns :
       (last'.op = "off" /\ Off(e, f)) =>
         /\ last'.ret = Bool(Plain(f) \in Range(Registry[e]))
         /\ Registry' = [Registry EXCEPT ![e] = Without(@, Plain(f))]
         /\ map'[e] = 0 <=> Registry'[e] = <<>>
         /\ \A d \in Events \ {e} : map'[d] = map[d]
         /\ Plain(f) \notin Range(Registry[e])
              => last'.ret = "false" /\ Registry' = Registry /\ map' = map]_vars

\* C14 witness: off(e, f) has returned true and left the other listener of
\* e, whose handle is still live, in e's set.
OffLeftOtherListener ==
  /\ last.op = "off"
  /\ last.ret = "true"
  /\ Len(handles) = 2
  /\ handles[1].ev = handles[2].ev
  /\ handles[1].kind = "on" /\ handles[2].kind = "on"
  /\ ~handles[1].used /\ ~handles[2].used
  /\ handles[1].offed
  /\ Registry[handles[1].ev] = <<handles[2].listener>>

\* C15 (as claimed): off(e, f) called while a once(e, f) subscription is
\* waiting returns true and takes the subscription out of e's set, so that no
\* later emission of e invokes f.
OffUnsubscribesOnceListener ==
  [][\A e \in Events, f \in Fns, h \in 1..MaxHandles :
       (/\ last'.op = "off"
        /\ h \in DOMAIN handles
        /\ handles[h].kind = "once"
        /\ handles[h].ev = e
        /\ handles[h].listener = Wrapper(f, h)
        /\ Wrapper(f, h) \in Range(Registry[e])
        /\ Off(e, f))
         => last'.ret = "true" /\ Wrapper(f, h) \notin Range(Registry'[e])]_vars

\* C16: for an event without listeners has() is false, and emit and
\* emitAsync of it invoke no listener and leave registry, handles and running
\* emissions as they are, emit returning and emitAsync resolving; each still
\* calls the trace hook, with its own tag.
EmptyEmitOnlyTraces ==
  [][\A e \in Events :
       (/\ last'.op \in {"emit", "emitAsync"}
        /\ listenersSize(e) = 0
        /\ Emit(e) \/ EmitAsync(e))
         => /\ ~has(e)
            /\ Registry[e] = <<>>
            /\ <<map, sets, handles, stack, pend>>' = <<map, sets, handles, stack, pend>>
            /\ last'.done = NoEm
            /\ Emit(e) => last'.trace = "emit" /\ last'.ret = "void"
            /\ EmitAsync(e) => last'.trace = "emitAsync" /\ last'.ret = "resolved"]_vars

\* C16 witness: an event whose listeners were all removed again has just
\* been emitted: nothing is registered, and the trace hook got "emit".
EmittedAfterAllRemoved ==
  /\ last.op = "emit"
  /\ last.ret = "void"
  /\ last.trace = "emit"
  /\ Len(handles) = MaxHandles
  /\ \A h \in DOMAIN handles : handles[h].ev = 1 /\ ~handles[h].active
  /\ \A e \in Events : map[e] = 0 /\ ~has(e)
  /\ stack = <<>> /\ pend = <<>>

\* C17 (as claimed): eventful() applied to an object that has one of the
\* six names it defines fails with the collision error and leaves the
\* object's properties as they were.
CollisionOnAnyInstalledName ==
  (host.res # "new" /\ host.kind # "primitive" /\ host.had \cap Names # {})
    => host.res = "Error" /\ host.props = Before(host.had)

\* C17 failing case: eventful() has returned for an object with an
\* emitAsync property of its own, which it replaced.
OwnEmitAsyncReplaced ==
  /\ host.res = "attached"
  /\ "emitAsync" \in host.had
  /\ host.props["emitAsync"] = "eventful"

\* C18: on, once and off called with a listener argument that is no
\* function throw a TypeError at the caller and leave the registry, has()
\* for every event, the handles and the running emissions as they were.
NotCallableRejected ==
  [][\A e \in Events :
       (/\ last'.op \in {"on", "once", "off"}
        /\ \/ On(e, NotFunction)
           \/ Once(e, NotFunction)
           \/ Off(e, NotFunction))
         => /\ last'.ret = "TypeError"
            /\ last'.trace = "none"
            /\ \A d \in Events : has(d)' = has(d)
            /\ <<map, sets, handles, stack, pend>>' = <<map, sets, handles, stack, pend>>]_vars

\* C18 witness: off was called with a non-function from inside an emission
\* and threw a TypeError, the listeners staying registered.
OffThrewTypeError ==
  /\ last.op = "off"
  /\ last.ret = "TypeError"
  /\ stack # <<>>
  /\ has(stack[Top].ev)

\* The trace hook in force: the emitter's own one, else the trace property
\* of the object that eventful.options holds now.
Effective == IF hooks.own # "none" THEN hooks.own ELSE hooks.trace[hooks.cur]

\* C19 (as claimed): every on, off, emit and emitAsync call of an emitter
\* that has no trace option calls the global trace hook that is in force
\* when the call is made, however the program has put it in force.
GlobalHookReadAtCall ==
  last.trace # "none" => last.hook = Effective

\* C19 failing case: after a new object was assigned to eventful.options,
\* a call that is not off has called the trace hook of the object that was
\* assigned when eventful() ran.
StaleTraceHookCalled ==
  /\ hooks.own = "none"
  /\ hooks.cur # hooks.captured
  /\ last.trace \in {"on", "emit", "emitAsync"}
  /\ last.hook = hooks.trace[hooks.captured]
  /\ last.hook # hooks.trace[hooks.cur]

\* C20 (as claimed): every on, once and off call that passes the type
\* guard, every invocation of a subscription handle and every emit and
\* emitAsync call calls the trace hook.
TraceOnEveryOperation ==
  /\ []((last.op \in {"on", "once", "off", "handle"} /\ last.ret # "TypeError")
          => last.trace # "none" /\ last.hook # "none")
  /\ [][\A e \in Events :
          /\ Emit(e) => last'.trace = "emit" /\ last'.hook # "none"
          /\ EmitAsync(e) => last'.trace = "emitAsync" /\ last'.hook # "none"]_vars

\* C20 failing case: a subscription handle has removed its listener and the
\* trace hook was not called.
HandleUnsubscribedUntraced ==
  /\ last.op = "handle"
  /\ last.ret = "true"
  /\ last.trace = "none"
  /\ last.hook = "none"
  /\ handles[last.h].listener \notin Range(Registry[handles[last.h].ev])

----------------------------------------------------------------------------
InOrder(em) ==
  \A i, j \in DOMAIN em.calls : i < j => em.calls[i].pos < em.calls[j].pos

\* C1: with strict false no listener failure reaches the caller: emit
\* returns normally and the completion of emitAsync is never rejected,
\* whichever listeners throw or return a completion that is rejected.
ListenerFailureIsolated ==
  ~strict =>
    /\ last.ret # "threw"
    /\ \A em \in Emissions : em.res \notin {"threw", "rejected"}
    /\ \A em \in Over :
         /\ em.kind = "emit" => em.res = "returned" /\ last.ret = "void"
         /\ em.kind = "emitAsync" => em.res = "resolved"

\* C1 witness: an emitAsync with a listener that threw and a listener whose
\* completion was rejected has resolved.
ResolvedDespiteFailures ==
  /\ ~strict
  /\ last.done # NoEm
  /\ last.done.kind = "emitAsync"
  /\ last.done.res = "resolved"
  /\ \E i \in DOMAIN last.done.calls : last.done.calls[i].st = "threw"
  /\ \E i \in DOMAIN last.done.calls : last.done.calls[i].st = "rejected"

\* C2: with strict false emit invokes the listeners of the event in
\* subscription order, goes on after a listener that throws, and has invoked
\* every listener that was registered throughout the call when it returns;
\* each listener that throws is reported to the error hook exactly once, with
\* its own context, before the next listener is invoked.
EmitVisitsAllInOrder ==
  ~strict =>
    \A em \in Emissions :
      em.kind = "emit" =>
        /\ InOrder(em)
        /\ \A i \in DOMAIN em.calls :
             IF em.calls[i].st = "threw"
             THEN ReportedOnce(em, i)
             ELSE HooksOf(em, i) = {}
        /\ em \in Over =>
             /\ em.res = "returned"
             /\ \A q \in Stayed(em) :
                  \E i \in DOMAIN em.calls :
                    em.calls[i].pos = q /\ em.calls[i].l = em.at[q]

\* C2 witness: an emit has returned after its first listener threw and its
\* second listener ran.
SecondRanAfterFirstThrew ==
  /\ ~strict
  /\ last.done # NoEm
  /\ last.done.kind = "emit"
  /\ Len(last.done.calls) = 2
  /\ last.done.calls[1].st = "threw"
  /\ last.done.calls[2].st = "fulfilled"
  /\ Invoked(last.done) = last.done.snap

\* C3: with strict true a listener that throws during emit is reported to
\* the error hook exactly once, then emit throws that same error, and no
\* listener is invoked after the one that threw.
StrictEmitAborts ==
  strict =>
    \A em \in Emissions :
      em.kind = "emit" =>
        /\ InOrder(em)
        /\ em.res = "threw" => em.calls # <<>> /\ em.calls[Len(em.calls)].st = "threw"
        /\ \A i \in DOMAIN em.calls :
             IF em.calls[i].st = "threw"
             THEN /\ i = Len(em.calls)
                  /\ ReportedOnce(em, i)
                  /\ em.log[Len(em.log)].t = "hook"
                  /\ em.res = "threw"
                  /\ em.err = em.calls[i].err
                  /\ em \in Over
                  /\ last.op = "emit" /\ last.ret = "threw"
             ELSE HooksOf(em, i) = {}

\* C3 witness: a strict emit threw at a listener that was followed by
\* another one, which was not invoked.
AbortedBeforeLaterListener ==
  /\ strict
  /\ last.done # NoEm
  /\ last.done.kind = "emit"
  /\ last.done.res = "threw"
  /\ \E q \in DOMAIN last.done.end :
       /\ q > last.done.pos
       /\ last.done.end[q] # Empty
       /\ last.done.end[q] \notin Range(Invoked(last.done))

\* C6 (as claimed): every listener failure, a throw or a rejection of the
\* completion the listener returned, is reported to the error hook exactly
\* once with the context of the listener.
EveryFailureReportedOnce ==
  \A em \in Emissions :
    \A i \in DOMAIN em.calls : Failed(em.calls[i]) => ReportedOnce(em, i)

\* C6 failing case: the completion a listener returned to emitAsync was
\* rejected, the emitAsync call is over, and the error hook was never called.
RejectionNeverReported ==
  /\ last.done # NoEm
  /\ last.done.kind = "emitAsync"
  /\ \E i \in DOMAIN last.done.calls : last.done.calls[i].st = "rejected"
  /\ \A j \in DOMAIN last.done.log : last.done.log[j].t # "hook"

----------------------------------------------------------------------------
AsyncOver(res) ==
  \E em \in Over : em.kind = "emitAsync" /\ em.res = res

\* C4: with strict false emitAsync starts every listener of the event, none
\* waiting for an earlier one to settle; its completion is not resolved
\* while a started listener is pending, and is resolved once all of them
\* have settled.
AsyncResolvesWhenAllSettled ==
  /\ [](~strict =>
          \A em \in Emissions :
            em.kind = "emitAsync" =>
              /\ em.res # "dispatching" => Invoked(em) = em.snap
              /\ em.res = "dispatching" =>
                   \A i \in DOMAIN em.calls : em.calls[i].l = em.snap[i]
              /\ em.res = "resolved" => AllSettled(em)
              /\ em.res # "rejected")
  /\ \A k \in 1..MaxAsync :
       (~strict /\ k \in DOMAIN pend /\ AllSettled(pend[k])) ~> AsyncOver("resolved")

\* C4 witness: an emitAsync that started its second listener while the
\* completion of the first was pending has resolved after both settled.
ResolvedAfterBothSettled ==
  /\ ~strict
  /\ last.done # NoEm
  /\ last.done.kind = "emitAsync"
  /\ last.done.res = "resolved"
  /\ Len(last.done.calls) = 2
  /\ last.op = "none"
  /\ last.done.calls[1].st = "rejected"
  /\ last.done.calls[2].st \in {"fulfilled", "rejected"}

\* C5: with strict true emitAsync starts every listener of the event, also
\* those after a listener that threw; its completion is rejected once a
\* listener has failed, with the first failure, whether or not the other
\* listeners have settled, and these can still settle afterwards.
AsyncStrictFailsFast ==
  /\ [](strict =>
          \A em \in Emissions :
            em.kind = "emitAsync" =>
              /\ em.res # "dispatching" => Invoked(em) = em.snap
              /\ em.res = "rejected" =>
                   /\ em.err = em.rej
                   /\ \E i \in DOMAIN em.calls :
                        Failed(em.calls[i]) /\ em.calls[i].err = em.err
              /\ em.res = "resolved" =>
                   \A i \in DOMAIN em.calls : em.calls[i].st = "fulfilled")
  /\ [](strict /\ stack = <<>> =>
          \A k \in DOMAIN pend, i \in 1..MaxHandles :
            (i \in DOMAIN pend[k].calls /\ pend[k].calls[i].st = "pending")
              => ENABLED Settle(k, i, TRUE) /\ ENABLED Settle(k, i, FALSE))
  /\ [](strict /\ stack = <<>> =>
          \A k \in DOMAIN pend :
            (pend[k].res = "pending" /\ \E i \in DOMAIN pend[k].calls :
                                         Failed(pend[k].calls[i]))
              => ENABLED AsyncSettle(k))
  /\ \A k \in 1..MaxAsync :
       (strict /\ k \in DOMAIN pend
          /\ \E i \in DOMAIN pend[k].calls : Failed(pend[k].calls[i]))
         ~> (AsyncOver("rejected") \/ \E em \in Awaiting : em.res = "rejected")

\* C5 witness: a strict emitAsync whose first listener threw has started the
\* second one and is rejected while the second one is still pending.
RejectedWhileOtherPending ==
  /\ strict
  /\ pend # <<>>
  /\ pend[1].res = "rejected"
  /\ Len(pend[1].calls) = 2
  /\ pend[1].calls[1].st = "threw"
  /\ pend[1].calls[2].st = "pending"

----------------------------------------------------------------------------
\* C21 (as claimed): emit of an event without listeners throws when strict
\* is true and returns when strict is false.
StrictEmptyEmitThrows ==
  [][\A e \in Events :
       (last'.op = "emit" /\ listenersSize(e) = 0 /\ Emit(e))
         => last'.ret = IF strict THEN "threw" ELSE "void"]_vars

\* C21 failing case: with strict true an emit of an event without listeners
\* has returned to its caller, nothing being registered or under way.
StrictEmptyEmitReturned ==
  /\ strict
  /\ last.op = "emit"
  /\ last.trace = "emit"
  /\ last.ret = "void"
  /\ \A e \in Events : ~has(e)
  /\ stack = <<>> /\ pend = <<>>

----------------------------------------------------------------------------
IsPrefix(a, b) == Len(a) <= Len(b) /\ a = SubSeq(b, 1, Len(a))

\* C22 (as claimed): an emit invokes the listeners that were in the event's
\* set at its lookup, in their order, all of them unless it aborts, whatever
\* the listeners subscribe or unsubscribe meanwhile.
EmitInvokesLookupSet ==
  \A em \in Emissions :
    em.kind = "emit" =>
      /\ IsPrefix(Invoked(em), em.snap)
      /\ em.res = "returned" => Invoked(em) = em.snap

\* C22 failing case: an emit has returned after invoking a listener that
\* was subscribed by a listener of this emit and was not in the set at the
\* lookup.
SubscribedDuringEmitInvoked ==
  /\ last.done # NoEm
  /\ last.done.kind = "emit"
  /\ last.done.res = "returned"
  /\ Len(last.done.snap) = 1
  /\ Len(last.done.calls) = 2
  /\ last.done.calls[1].l = last.done.snap[1]
  /\ last.done.calls[2].l \notin Range(last.done.snap)
  /\ last.done.calls[2].pos > Len(last.done.at)

\* C22 failing case, the other way: an emit has returned without invoking a
\* listener of its lookup that an earlier listener unsubscribed.
UnsubscribedDuringEmitSkipped ==
  /\ last.done # NoEm
  /\ last.done.kind = "emit"
  /\ last.done.res = "returned"
  /\ Len(last.done.snap) = 2
  /\ Invoked(last.done) = <<last.done.snap[1]>>

----------------------------------------------------------------------------
\* C23 (as claimed): an emit invokes no listener reference more than once,
\* also when its listeners unsubscribe and subscribe listeners of the event
\* while it runs.
EmitInvokesEachOnce ==
  \A em \in Emissions : em.kind = "emit" => NoDuplicates(Invoked(em))

\* C23 failing case: a listener that unsubscribed and subscribed itself
\* again while it ran has been invoked a second time by the same emit.
ResubscribedListenerInvokedAgain ==
  /\ stack # <<>>
  /\ stack[Top].kind = "emit"
  /\ Len(stack[Top].snap) = 2
  /\ Len(stack[Top].calls) = 3
  /\ Invoked(stack[Top]) = stack[Top].snap \o <<stack[Top].snap[2]>>
  /\ stack[Top].calls[3].st = "running"
  /\ stack[Top].calls[3].pos = 3

\* C24: one emitAsync call invokes exactly the listeners that were in the
\* event's set when the call began, in that order and each exactly once:
\* while it dispatches it has invoked a prefix of them, and once it has
\* reached its await it has invoked all of them, whatever was subscribed or
\* unsubscribed in between.
EmitAsyncInvokesSnapshot ==
  \A em \in Emissions :
    em.kind = "emitAsync" =>
      /\ em.snap = ArrayFrom(em.at)
      /\ NoDuplicates(em.snap)
      /\ IsPrefix(Invoked(em), em.snap)
      /\ em.res # "dispatching" => Invoked(em) = em.snap

\* C24 witness: emitAsync has just invoked its second listener, which an
\* earlier listener of the same dispatch had unsubscribed.
UnsubscribedStillInvokedAsync ==
  /\ stack # <<>>
  /\ stack[Top].kind = "emitAsync"
  /\ Len(stack[Top].snap) = 2
  /\ Len(stack[Top].calls) = 2
  /\ stack[Top].calls[2].st = "running"
  /\ last.op = "none"
  /\ last.trace = "none"
  /\ stack[Top].calls[2].l \notin Range(Listeners(map, sets, stack[Top].ev))

\* C24, the other case: the dispatch of an emitAsync has just ended having
\* invoked its one listener, and the event has a listener that was
\* subscribed during the dispatch and was not invoked by it.
SubscribedDuringAsyncNotInvoked ==
  /\ last.op = "emitAsync"
  /\ last.ret = "promise"
  /\ pend # <<>>
  /\ Len(pend[Len(pend)].snap) = 1
  /\ Invoked(pend[Len(pend)]) = pend[Len(pend)].snap
  /\ \E l \in Range(Listeners(map, sets, pend[Len(pend)].ev)) :
       l \notin Range(pend[Len(pend)].snap)
====
